---- MODULE Spec2Model ----
(***************************************************************************)
(* Verification model of graphix-zx: the open graph state                  *)
(* (src/graphix_zx/graphstate.py), the pattern builder                     *)
(* (src/graphix_zx/pattern.py) and the flow-to-pattern compiler.           *)
(***************************************************************************)
EXTENDS Integers, Sequences, FiniteSets, TLC

\* ------------------------------------------------------------------ bounds
\* number of calls made on the graph
MaxOps == 3

\* node identifiers the callers use
Nodes == {0, 1}
\* q_index values a caller passes: -1 ("not allocated", the default) and 0
QIdx == {0 - 1, 0}
\* absence of a key in the q_indices dict
NoQ == 0 - 2

Planes == {"XY", "YZ", "XZ"}
NoPlane == "none"
\* two float angles: the default 0.0 and one other value
Angles == {"0.0", "0.5pi"}
NoAngle == "none"

\* ------------------------------------------------- GraphState (graphstate.py)

\* GraphState.__init__
EmptyGraph ==
    [ physical_nodes |-> {},
      physical_edges |-> [n \in Nodes |-> {}],
      input_nodes    |-> {},
      output_nodes   |-> {},
      meas_planes    |-> [n \in Nodes |-> NoPlane],
      meas_angles    |-> [n \in Nodes |-> NoAngle],
      q_indices      |-> [n \in Nodes |-> NoQ] ]

\* GraphState.__init__ for a caller whose node identifiers are S
EmptyGraphOn(S) ==
    [ physical_nodes |-> {},
      physical_edges |-> [n \in S |-> {}],
      input_nodes    |-> {},
      output_nodes   |-> {},
      meas_planes    |-> [n \in S |-> NoPlane],
      meas_angles    |-> [n \in S |-> NoAngle],
      q_indices      |-> [n \in S |-> NoQ] ]

Ok(g) == [g |-> g, err |-> "ok"]
Fail(g, e) == [g |-> g, err |-> e]

\* num_physical_edges: sum of the neighbour-set sizes, floor-divided by 2
RECURSIVE SumLen(_, _)
SumLen(adj, S) ==
    IF S = {} THEN 0
    ELSE LET n == CHOOSE x \in S : TRUE
         IN Cardinality(adj[n]) + SumLen(adj, S \ {n})

num_physical_edges(g) == SumLen(g.physical_edges, Nodes) \div 2

\* get_physical_edges: the pairs (node1, node2) with node1 < node2
get_physical_edges(g) ==
    { e \in Nodes \X Nodes : e[1] < e[2] /\ e[2] \in g.physical_edges[e[1]] }

get_neighbors(g, n) == g.physical_edges[n]

\* set_q_index: rejects q_index < -1, no check of the node
set_q_index(g, node, q) ==
    IF q < 0 - 1 THEN Fail(g, "InvalidQIndex")
    ELSE Ok([g EXCEPT !.q_indices[node] = q])

\* add_physical_node(node, q_index, is_input, is_output)
add_physical_node(g, node, q, isIn, isOut) ==
    IF node \in g.physical_nodes THEN Fail(g, "NodeExists")
    ELSE LET g1 == [g EXCEPT !.physical_nodes = @ \cup {node},
                             !.physical_edges[node] = {}]
             r2 == set_q_index(g1, node, q)
         IN IF r2.err # "ok" THEN r2
            ELSE Ok([r2.g EXCEPT
                       !.input_nodes  = IF isIn THEN @ \cup {node} ELSE @,
                       !.output_nodes = IF isOut THEN @ \cup {node} ELSE @])

add_physical_edge_NoCheck2(g, n1, n2) ==
    IF n1 \notin g.physical_nodes THEN Fail(g, "InvalidNode")
    ELSE IF n1 \in g.physical_edges[n2] \/ n2 \in g.physical_edges[n1]
         THEN Fail(g, "DuplicateEdge")
    ELSE Ok([g EXCEPT !.physical_edges =
                [n \in DOMAIN g.physical_edges |->
                                 IF n = n1 THEN g.physical_edges[n] \cup {n2}
                                 ELSE IF n = n2 THEN g.physical_edges[n] \cup {n1}
                                 ELSE g.physical_edges[n]]])

\* add_physical_edge(node1, node2)
add_physical_edge(g, n1, n2) ==
    IF n1 \notin g.physical_nodes THEN Fail(g, "InvalidNode")
    ELSE IF n2 \notin g.physical_nodes THEN Fail(g, "InvalidNode")
    ELSE IF n1 \in g.physical_edges[n2] \/ n2 \in g.physical_edges[n1]
         THEN Fail(g, "DuplicateEdge")
    ELSE Ok([g EXCEPT !.physical_edges =
                [n \in DOMAIN g.physical_edges |->
                                 IF n = n1 THEN g.physical_edges[n] \cup {n2}
                                 ELSE IF n = n2 THEN g.physical_edges[n] \cup {n1}
                                 ELSE g.physical_edges[n]]])

\* set_input(node)
set_input(g, node) ==
    IF node \notin g.physical_nodes THEN Fail(g, "InvalidNode")
    ELSE Ok([g EXCEPT !.input_nodes = @ \cup {node}])

\* set_output(node)
set_output(g, node) ==
    IF node \notin g.physical_nodes THEN Fail(g, "InvalidNode")
    ELSE Ok([g EXCEPT !.output_nodes = @ \cup {node}])

\* set_meas_plane(node, plane)
set_meas_plane(g, node, plane) ==
    IF node \notin g.physical_nodes THEN Fail(g, "InvalidNode")
    ELSE Ok([g EXCEPT !.meas_planes[node] = plane])

\* set_meas_angle(node, angle)
set_meas_angle(g, node, angle) ==
    IF node \notin g.physical_nodes THEN Fail(g, "InvalidNode")
    ELSE Ok([g EXCEPT !.meas_angles[node] = angle])

\* _reset_input_output(node)
reset_input_output(g, node) ==
    [g EXCEPT !.input_nodes = @ \ {node}, !.output_nodes = @ \ {node}]

remove_physical_node_NoInputCheck(g, node) ==
    IF node \notin g.physical_nodes THEN Fail(g, "InvalidNode")
    ELSE Ok([g EXCEPT
               !.physical_nodes = @ \ {node},
               !.physical_edges = [n \in Nodes |-> IF n = node THEN {} ELSE @[n] \ {node}],
               !.input_nodes = @ \ {node},
               !.output_nodes = @ \ {node},
               !.meas_planes[node] = NoPlane,
               !.meas_angles[node] = NoAngle,
               !.q_indices[node] = NoQ])

\* remove_physical_node(node): absent -> InvalidNode, declared input ->
\* InputNodeRemoval, else the node, its incident edges and its output, basis
\* and index records go
remove_physical_node(g, node) ==
    IF node \notin g.physical_nodes THEN Fail(g, "InvalidNode")
    ELSE IF node \in g.input_nodes THEN Fail(g, "InputNodeRemoval")
    ELSE Ok([g EXCEPT
               !.physical_nodes = @ \ {node},
               !.physical_edges = [n \in Nodes |-> IF n = node THEN {} ELSE @[n] \ {node}],
               !.output_nodes = @ \ {node},
               !.meas_planes[node] = NoPlane,
               !.meas_angles[node] = NoAngle,
               !.q_indices[node] = NoQ])

\* remove_physical_edge(node1, node2)
remove_physical_edge(g, n1, n2) ==
    IF n1 \notin g.physical_nodes \/ n2 \notin g.physical_nodes
    THEN Fail(g, "InvalidNode")
    ELSE IF n2 \notin g.physical_edges[n1] /\ n1 \notin g.physical_edges[n2]
         THEN Fail(g, "MissingEdge")
    ELSE Ok([g EXCEPT !.physical_edges =
                [n \in Nodes |-> IF n = n1 THEN g.physical_edges[n] \ {n2}
                                 ELSE IF n = n2 THEN g.physical_edges[n] \ {n1}
                                 ELSE g.physical_edges[n]]])

\* nodes holding a measurement-basis record
meas_bases(g) ==
    { n \in Nodes : g.meas_planes[n] # NoPlane \/ g.meas_angles[n] # NoAngle }

\* no node named by the outcome of a call
NoNode == 0 - 1

check_meas_basis_AllNodes(g) ==
    LET missing == g.physical_nodes \ meas_bases(g)
    IN IF missing = {} THEN {[g |-> g, err |-> "ok", node |-> NoNode]}
       ELSE {[g |-> g, err |-> "MissingMeasurementBasis", node |-> n] : n \in missing}

\* check_meas_basis(): scans the non-output nodes and raises on the first one
\* it meets without a basis (the nodes are a set: any of them can be first)
check_meas_basis(g) ==
    LET missing == (g.physical_nodes \ g.output_nodes) \ meas_bases(g)
    IN IF missing = {} THEN {[g |-> g, err |-> "ok", node |-> NoNode]}
       ELSE {[g |-> g, err |-> "MissingMeasurementBasis", node |-> n] : n \in missing}

\* bipartite_edges(node_set1, node_set2): the pairs (min, max) of one node of
\* each set, a node never paired with itself
Min2(a, b) == IF a < b THEN a ELSE b
Max2(a, b) == IF a < b THEN b ELSE a

bipartite_edges_Unordered(A, B) ==
    { <<p[1], p[2]>> : p \in { q \in A \X B : q[1] # q[2] } }

bipartite_edges(A, B) ==
    { <<Min2(p[1], p[2]), Max2(p[1], p[2])>> : p \in { q \in A \X B : q[1] # q[2] } }

\* ---- append(other) ----------------------------------------------------
common_nodes(g, h) == g.physical_nodes \cap h.physical_nodes
border_nodes(g, h) == g.output_nodes \cap h.input_nodes

\* one iteration of the loop over other's nodes (graphstate.py 218-230);
\* every call it makes succeeds once common_nodes = border_nodes
AppendNode(g, h, border, node) ==
    LET g1 == IF node \in border
              THEN reset_input_output(g, node)
              ELSE LET a == add_physical_node(g, node, 0 - 1, FALSE, FALSE).g
                   IN IF node \in h.input_nodes \ a.output_nodes
                      THEN set_input(a, node).g ELSE a
    IN IF node \in h.output_nodes
       THEN set_output(g1, node).g
       ELSE LET p == IF h.meas_planes[node] = NoPlane THEN "XY" ELSE h.meas_planes[node]
                t == IF h.meas_angles[node] = NoAngle THEN "0.0" ELSE h.meas_angles[node]
            IN set_meas_angle(set_meas_plane(g1, node, p).g, node, t).g

RECURSIVE AppendNodes(_, _, _, _)
AppendNodes(g, h, border, todo) ==
    IF todo = {} THEN g
    ELSE LET n == CHOOSE x \in todo : TRUE
         IN AppendNodes(AppendNode(g, h, border, n), h, border, todo \ {n})

RECURSIVE AddEdges(_, _)
AddEdges(g, es) ==
    IF es = {} THEN g
    ELSE LET e == CHOOSE x \in es : TRUE
         IN AddEdges(add_physical_edge(g, e[1], e[2]).g, es \ {e})

\* edges of other that add_physical_edge rejects on this graph
DupEdges(g, h) ==
    { e \in get_physical_edges(h) : add_physical_edge(g, e[1], e[2]).err # "ok" }

SetQ(g, h, keys) ==
    [g EXCEPT !.q_indices = [n \in Nodes |-> IF n \in keys THEN h.q_indices[n] ELSE @[n]]]

QKeys(h) == { n \in Nodes : h.q_indices[n] # NoQ }

\* shared nodes whose qubit index differs between the two graphs
QMismatch(g, h, common) ==
    { n \in common \cap QKeys(h) : g.q_indices[n] # h.q_indices[n] }

\* append(other): every outcome the call can have.  The loops run over a set
\* and a dict of other, so a failing call has run its loop over any part of
\* the remaining items first.
append(g, h) ==
    LET common == common_nodes(g, h)
        border == border_nodes(g, h)
        g1 == AppendNodes(g, h, border, h.physical_nodes)
        dup == DupEdges(g1, h)
        g2 == AddEdges(g1, get_physical_edges(h))
        bad == QMismatch(g2, h, common)
    IN IF common # border THEN { Fail(g, "BoundaryMismatch") }
       ELSE IF dup # {}
            THEN { Fail(AddEdges(g1, es), "DuplicateEdge") :
                     es \in SUBSET (get_physical_edges(h) \ dup) }
       ELSE IF bad # {}
            THEN { Fail(SetQ(g2, h, ks), "BoundaryMismatch") :
                     ks \in SUBSET (QKeys(h) \ bad) }
       ELSE { Ok(SetQ(g2, h, QKeys(h))) }

\* ------------------------------------------------ MutablePattern (pattern.py)
\* commands: N(node, q_index), E(nodes), M(node, plane, angle, s_domain,
\* t_domain), X(node, domain), Z(node, domain), C(node, cliff_index)
CmdN(n, q) == [kind |-> "N", node |-> n, q_index |-> q]
CmdE(a, b) == [kind |-> "E", nodes |-> <<a, b>>]
CmdM(n, p, t, s, d) ==
    [kind |-> "M", node |-> n, plane |-> p, angle |-> t, s_domain |-> s, t_domain |-> d]
CmdX(n, d) == [kind |-> "X", node |-> n, domain |-> d]
CmdZ(n, d) == [kind |-> "Z", node |-> n, domain |-> d]

\* MutablePattern.__init__(input_nodes, q_indices)
MutablePatternInit(input_nodes, q_indices) ==
    [ input_nodes   |-> input_nodes,
      Nnode         |-> Cardinality(input_nodes),
      seq           |-> <<>>,
      output_nodes  |-> input_nodes,
      q_indices     |-> q_indices,
      runnable      |-> FALSE,
      deterministic |-> FALSE ]

PutKey(f, k, v) == [x \in DOMAIN f \cup {k} |-> IF x = k THEN v ELSE f[x]]

PatOk(p) == [p |-> p, err |-> "ok"]
PatFail(p, e) == [p |-> p, err |-> e]

add_NeverRaises(p, cmd) ==
    LET p1 == IF cmd.kind = "N"
              THEN [p EXCEPT !.Nnode = @ + 1,
                             !.output_nodes = @ \cup {cmd.node},
                             !.q_indices = PutKey(@, cmd.node, cmd.q_index)]
              ELSE IF cmd.kind = "M"
              THEN [p EXCEPT !.output_nodes = @ \ {cmd.node}]
              ELSE p
    IN PatOk([p1 EXCEPT !.seq = Append(@, cmd),
                        !.runnable = FALSE,
                        !.deterministic = FALSE])

add_KeepsMeasured(p, cmd) ==
    IF cmd.kind = "N" /\ cmd.node \in p.output_nodes
    THEN PatFail(p, "NodeAlreadyPrepared")
    ELSE LET p1 == IF cmd.kind = "N"
                   THEN [p EXCEPT !.Nnode = @ + 1,
                                  !.output_nodes = @ \cup {cmd.node},
                                  !.q_indices = PutKey(@, cmd.node, cmd.q_index)]
                   ELSE p
         IN PatOk([p1 EXCEPT !.seq = Append(@, cmd),
                             !.runnable = FALSE,
                             !.deterministic = FALSE])

\* MutablePattern.add(cmd)
add(p, cmd) ==
    IF cmd.kind = "N" /\ cmd.node \in p.output_nodes
    THEN PatFail(p, "NodeAlreadyPrepared")
    ELSE LET p1 == IF cmd.kind = "N"
                   THEN [p EXCEPT !.Nnode = @ + 1,
                                  !.output_nodes = @ \cup {cmd.node},
                                  !.q_indices = PutKey(@, cmd.node, cmd.q_index)]
                   ELSE IF cmd.kind = "M"
                   THEN [p EXCEPT !.output_nodes = @ \ {cmd.node}]
                   ELSE p
         IN PatOk([p1 EXCEPT !.seq = Append(@, cmd),
                             !.runnable = FALSE,
                             !.deterministic = FALSE])

\* MutablePattern.extend(cmds): add each command, stopping at the first that raises
RECURSIVE extend(_, _)
extend(p, cmds) ==
    IF cmds = <<>> THEN PatOk(p)
    ELSE LET r == add(p, Head(cmds))
         IN IF r.err # "ok" THEN r ELSE extend(r.p, Tail(cmds))

mark_runnable(p) == [p EXCEPT !.runnable = TRUE]
mark_deterministic(p) == [p EXCEPT !.deterministic = TRUE]

\* MutablePattern.clear()
clear(p) ==
    [p EXCEPT !.Nnode = Cardinality(p.input_nodes),
              !.seq = <<>>,
              !.output_nodes = p.input_nodes]

\* the optional argument input_nodes of replace: None, or a set of nodes
NoneArg == <<>>
SomeArg(x) == <<x>>

\* MutablePattern.replace(cmds, input_nodes)
replace(p, cmds, input_nodes) ==
    LET p1 == IF input_nodes # NoneArg
              THEN [p EXCEPT !.input_nodes = input_nodes[1]]
              ELSE p
    IN extend(clear(p1), cmds)

\* MutablePattern.get_nodes(): the nodes of the N commands
get_nodes(p) == { p.seq[i].node : i \in { j \in 1..Len(p.seq) : p.seq[j].kind = "N" } }

\* MutablePattern.append_pattern(pattern): the new pattern, or the error raised
append_pattern(p, o) ==
    LET common_nodes_p == get_nodes(p) \cap get_nodes(o)
        border_nodes_p == p.output_nodes \cap o.input_nodes
        new_input_nodes == p.input_nodes \cup (o.input_nodes \ common_nodes_p)
        missing == { n \in new_input_nodes :
                       n \notin DOMAIN p.q_indices /\ n \notin DOMAIN o.q_indices }
        new_input_q_indices ==
            [n \in new_input_nodes |->
                IF n \in DOMAIN p.q_indices THEN p.q_indices[n] ELSE o.q_indices[n]]
        r1 == extend(MutablePatternInit(new_input_nodes, new_input_q_indices), p.seq)
        r2 == extend(r1.p, o.seq)
        m1 == IF p.runnable /\ o.runnable THEN mark_runnable(r2.p) ELSE r2.p
        m2 == IF p.deterministic /\ o.deterministic THEN mark_deterministic(m1) ELSE m1
    IN IF common_nodes_p # border_nodes_p THEN PatFail(p, "BoundaryMismatch")
       ELSE IF missing # {} THEN PatFail(p, "KeyError")
       ELSE IF r1.err # "ok" THEN PatFail(p, r1.err)
       ELSE IF r2.err # "ok" THEN PatFail(p, r2.err)
       ELSE PatOk(m2)

\* the loop of calc_max_space: nodes and max_nodes over the commands
RECURSIVE RunningMax(_, _, _)
RunningMax(nodes, max_nodes, cmds) ==
    IF cmds = <<>> THEN max_nodes
    ELSE LET n1 == IF Head(cmds).kind = "N" THEN nodes + 1
                   ELSE IF Head(cmds).kind = "M" THEN nodes - 1
                   ELSE nodes
         IN RunningMax(n1, IF n1 > max_nodes THEN n1 ELSE max_nodes, Tail(cmds))

calc_max_space_LastOnly(p) ==
    Cardinality(p.input_nodes)
      + Cardinality({ i \in 1..Len(p.seq) : p.seq[i].kind = "N" })
      - Cardinality({ i \in 1..Len(p.seq) : p.seq[i].kind = "M" })

\* MutablePattern.calc_max_space()
calc_max_space(p) ==
    RunningMax(Cardinality(p.input_nodes), Cardinality(p.input_nodes), p.seq)

\* ImmutablePattern.calc_max_space()
frozen_calc_max_space(f) ==
    RunningMax(Cardinality(f.input_nodes), Cardinality(f.input_nodes), f.seq)

\* MutablePattern.get_space_list()
RECURSIVE SpaceList(_, _)
SpaceList(nodes, cmds) ==
    IF cmds = <<>> THEN <<>>
    ELSE IF Head(cmds).kind = "N" THEN <<nodes + 1>> \o SpaceList(nodes + 1, Tail(cmds))
    ELSE IF Head(cmds).kind = "M" THEN <<nodes - 1>> \o SpaceList(nodes - 1, Tail(cmds))
    ELSE SpaceList(nodes, Tail(cmds))

get_space_list(p) ==
    <<Cardinality(p.input_nodes)>> \o SpaceList(Cardinality(p.input_nodes), p.seq)

\* MutablePattern.freeze(): the ImmutablePattern is built from the builder's
\* own set, dict and list objects and from the values of its two flags
freeze(p) ==
    [input_nodes   |-> p.input_nodes,
     output_nodes  |-> p.output_nodes,
     q_indices     |-> p.q_indices,
     seq           |-> p.seq,
     runnable      |-> p.runnable,
     deterministic |-> p.deterministic]

\* is_standardized(pattern)
KindOrderSwapped == <<"N", "M", "E", "X", "Z", "C">>
standardized_order == <<"N", "E", "M", "X", "Z", "C">>

KindIndex(k) == CHOOSE i \in 1..Len(standardized_order) : standardized_order[i] = k
KnownKind(k) == \E i \in 1..Len(standardized_order) : standardized_order[i] = k

RECURSIVE ScanKinds(_, _)
ScanKinds(cmds, current) ==
    IF cmds = <<>> THEN "True"
    ELSE LET k == Head(cmds).kind
         IN IF k = current THEN ScanKinds(Tail(cmds), current)
            ELSE IF ~KnownKind(k) THEN "ValueError"
            ELSE IF KindIndex(k) < KindIndex(current) THEN "False"
            ELSE ScanKinds(Tail(cmds), k)

is_standardized_FirstOnly(cmds) ==
    ScanKinds(IF cmds = <<>> THEN cmds ELSE <<Head(cmds)>>, "N")

is_standardized(cmds) == ScanKinds(cmds, "N")

\* ------------------------------------------ FlowDependency and transpile
\* node identifiers of the graphs handed to the compiler
TNodes == {0, 1, 2}
\* largest correction-target set of a flow entry
MaxFlowSize == 2

TNeighbors(es, n) == { m \in TNodes : <<m, n>> \in es \/ <<n, m>> \in es }

\* nodes with an odd number of graph edges into S
odd_neighborhood(es, S) ==
    { n \in TNodes : Cardinality(TNeighbors(es, n) \cap S) % 2 = 1 }

x_corrections_KeepSelf(flow, t) == { m \in DOMAIN flow : t \in flow[m] }

\* generate_corrections(graph, flow)
x_corrections(flow, t) == { m \in DOMAIN flow : t \in flow[m] } \ {t}
z_corrections(es, flow, t) ==
    { m \in DOMAIN flow : t \in odd_neighborhood(es, flow[m]) } \ {t}

\* the two maps generate_corrections returns, one entry per graph node
generate_corrections(es, flow) ==
    [x |-> [t \in TNodes |-> x_corrections(flow, t)],
     z |-> [t \in TNodes |-> z_corrections(es, flow, t)]]

construct_dag_FlowOnly(es, flow) ==
    [m \in TNodes |-> IF m \in DOMAIN flow THEN flow[m] \ {m} ELSE {}]

\* construct_dag(flow, graph): every node is a key, a node without a flow
\* entry has no successor
construct_dag(es, flow) ==
    [m \in TNodes |->
        IF m \in DOMAIN flow
        THEN (flow[m] \cup odd_neighborhood(es, flow[m])) \ {m}
        ELSE {}]

ZeroInDegree_Any(dag, done) == TNodes \ done

\* Kahn's algorithm: the nodes not yet ordered that no unordered node points to
ZeroInDegree(dag, done) ==
    { n \in TNodes \ done : ~\E m \in TNodes \ done : n \in dag[m] }

Range(sq) == { sq[i] : i \in 1..Len(sq) }

RECURSIVE SetToSeq(_)
SetToSeq(S) ==
    IF S = {} THEN <<>>
    ELSE LET x == CHOOSE y \in S : TRUE IN <<x>> \o SetToSeq(S \ {x})

MeasCmd_XYRuleOnly(t, n) ==
    CmdM(n, t.planes[n], "0.0",
         x_corrections(t.flow, n), z_corrections(t.edges, t.flow, n))

\* the M command of a node: the domains follow the measurement plane
MeasCmd(t, n) ==
    LET xc == x_corrections(t.flow, n)
        zc == z_corrections(t.edges, t.flow, n)
        p == t.planes[n]
    IN CmdM(n, p, "0.0",
            IF p = "XY" THEN xc ELSE IF p = "XZ" THEN xc \cup zc ELSE zc,
            IF p = "XY" THEN zc ELSE xc)

\* the command list of transpile for a topological order
TranspileCommands(t, topo) ==
    LET internal == TNodes \ (t.input_nodes \cup t.output_nodes)
        ns == SetToSeq(internal) \o SetToSeq(t.output_nodes)
        es == SetToSeq(t.edges)
        ms == SelectSeq(topo, LAMBDA n : n \notin t.output_nodes)
        os == SetToSeq(t.output_nodes)
    IN [i \in 1..Len(ns) |-> CmdN(ns[i], 0 - 1)]
       \o [i \in 1..Len(es) |-> CmdE(es[i][1], es[i][2])]
       \o [i \in 1..Len(ms) |-> MeasCmd(t, ms[i])]
       \o [i \in 1..Len(os) |-> CmdX(os[i], x_corrections(t.flow, os[i]))]
       \o [i \in 1..Len(os) |-> CmdZ(os[i], z_corrections(t.edges, t.flow, os[i]))]

\* transpile(graph, input_nodes, output_nodes, flow, meas_bases) once the
\* topological order is known
transpile(t, topo) ==
    extend(MutablePatternInit(t.input_nodes, [n \in t.input_nodes |-> 0 - 1]),
           TranspileCommands(t, topo))

\* ------------------------------------------------------- SpaceScheduler
get_dependencies_NotInverted(es, flow) == construct_dag(es, flow)

\* get_dependencies(graph, gflow): the inverted dependency graph
get_dependencies(es, flow) ==
    LET dag == construct_dag(es, flow)
    IN [child \in DOMAIN dag |-> { node \in DOMAIN dag : child \in dag[node] }]

get_activation_nodes(es, target_node, activated_nodes) ==
    TNeighbors(es, target_node) \ activated_nodes

count_activation_cost(es, target_node, activated_nodes) ==
    Cardinality(get_activation_nodes(es, target_node, activated_nodes))

find_min_from_dict_Any(d) == DOMAIN d

\* find_min_from_dict: a key of least value; which one among equals depends
\* on the iteration order of the candidate set
find_min_from_dict(d) ==
    { k \in DOMAIN d : \A j \in DOMAIN d : d[k] <= d[j] }

meas_candidates(sc) ==
    { node \in sc.unmeasured_nodes : sc.inverted_dag[node] = {} }

remove_target_Skip(inv, target_node) == inv

\* the measured node leaves every dependency set
remove_target(inv, target_node) ==
    [n \in DOMAIN inv |-> inv[n] \ {target_node}]

\* ---- get_subgraph_sequences (resource_opt.py 15-73) --------------------
\* the q_indices, meas_angles of the graph handed to get_subgraph_sequences:
\* every node has its own index, every non-output node an angle
GraphQIndices == [n \in TNodes |-> n]
GraphMeasAngles(t) ==
    [n \in TNodes \ t.output_nodes |-> IF n = 0 THEN "0.0" ELSE "0.5pi"]

\* a call on a subgraph, made only if the calls before it returned
ThenEdge(r, n1, n2) == IF r.err # "ok" THEN r ELSE add_physical_edge(r.g, n1, n2)
ThenAngle(r, node, angle) == IF r.err # "ok" THEN r ELSE set_meas_angle(r.g, node, angle)
ThenPlane(r, node, plane) == IF r.err # "ok" THEN r ELSE set_meas_plane(r.g, node, plane)

\* "for node in ...: add_physical_node(node, q_index, is_input=True,
\* is_output=True)" of the initial and of the last graph
RECURSIVE AddBoundaryNodes(_, _)
AddBoundaryNodes(r, S) ==
    IF S = {} \/ r.err # "ok" THEN r
    ELSE LET n == CHOOSE x \in S : TRUE
         IN AddBoundaryNodes(
                add_physical_node(r.g, n, GraphQIndices[n], TRUE, TRUE), S \ {n})

initial_graph(t) == AddBoundaryNodes(Ok(EmptyGraphOn(TNodes)), t.input_nodes)

\* the loops over neighboring_prepared_nodes (is_input) and over
\* activation_nodes (not is_input): the node, then its edge to the target
RECURSIVE AddNeighbours(_, _, _, _)
AddNeighbours(r, S, target_node, isIn) ==
    IF S = {} \/ r.err # "ok" THEN r
    ELSE LET n == CHOOSE x \in S : TRUE
             r1 == add_physical_node(r.g, n, GraphQIndices[n], isIn, TRUE)
             r2 == ThenEdge(r1, n, target_node)
         IN AddNeighbours(r2, S \ {n}, target_node, isIn)

subgraph_NoPrepared(t, activated_nodes, target_node) ==
    LET activation_nodes == get_activation_nodes(t.edges, target_node, activated_nodes)
        r0 == add_physical_node(EmptyGraphOn(TNodes), target_node,
                                GraphQIndices[target_node],
                                target_node \in activated_nodes, FALSE)
        r1 == ThenAngle(r0, target_node, GraphMeasAngles(t)[target_node])
        r2 == ThenPlane(r1, target_node, t.planes[target_node])
    IN AddNeighbours(r2, activation_nodes, target_node, FALSE)

\* the snapshot before the measurement of target_node
subgraph(t, activated_nodes, target_node) ==
    LET neighbors == TNeighbors(t.edges, target_node)
        activation_nodes == get_activation_nodes(t.edges, target_node, activated_nodes)
        neighboring_prepared_nodes == neighbors \ activation_nodes
        r0 == add_physical_node(EmptyGraphOn(TNodes), target_node,
                                GraphQIndices[target_node],
                                target_node \in activated_nodes, FALSE)
        r1 == ThenAngle(r0, target_node, GraphMeasAngles(t)[target_node])
        r2 == ThenPlane(r1, target_node, t.planes[target_node])
        r3 == AddNeighbours(r2, neighboring_prepared_nodes, target_node, TRUE)
    IN AddNeighbours(r3, activation_nodes, target_node, FALSE)

\* "add edge between output nodes": each edge once, when its second
\* endpoint is met
RECURSIVE AddOutputEdges(_, _)
AddOutputEdges(r, E) ==
    IF E = {} \/ r.err # "ok" THEN r
    ELSE LET e == CHOOSE x \in E : TRUE
         IN AddOutputEdges(add_physical_edge(r.g, e[1], e[2]), E \ {e})

last_graph(t) ==
    AddOutputEdges(AddBoundaryNodes(Ok(EmptyGraphOn(TNodes)), t.output_nodes),
                   { e \in t.edges : e[1] \in t.output_nodes /\ e[2] \in t.output_nodes })

\* ------------------------------------------------------------ state machine
\* The graphs a caller passes to append: built from the empty graph by the
\* operations above (nodes with their q_index and input/output flags, then
\* the edges, then the measurement bases).
RECURSIVE BuildNodes(_, _, _, _, _)
BuildNodes(g, todo, ins, outs, q) ==
    IF todo = {} THEN g
    ELSE LET n == CHOOSE x \in todo : TRUE
         IN BuildNodes(add_physical_node(g, n, q, n \in ins, n \in outs).g,
                       todo \ {n}, ins, outs, q)

RECURSIVE BuildBases(_, _, _, _)
BuildBases(g, todo, p, t) ==
    IF todo = {} THEN g
    ELSE LET n == CHOOSE x \in todo : TRUE
         IN BuildBases(set_meas_angle(set_meas_plane(g, n, p).g, n, t).g,
                       todo \ {n}, p, t)

AllEdges(ns) == { e \in ns \X ns : e[1] < e[2] }

BuildGraph(ns, ins, outs, q, es, measured) ==
    BuildBases(AddEdges(BuildNodes(EmptyGraph, ns, ins, outs, q), es),
               measured, "YZ", "0.5pi")

GraphsOn(ns) ==
    { BuildGraph(ns, ins, outs, q, es, ms) :
        ins \in SUBSET ns, outs \in SUBSET ns, q \in QIdx,
        es \in SUBSET AllEdges(ns), ms \in {{}, ns} }

OtherGraphs == UNION { GraphsOn(ns) : ns \in SUBSET Nodes }

VARIABLES graph, last, ops, chain, tin, tpc, order, pattern, sch, pb, std, sgs, bip
graphVars == <<graph, last, ops>>
transpileVars == <<tin, tpc, order, pattern>>
pureVars == <<std, sgs, bip>>
vars == <<graph, last, ops, chain, tin, tpc, order, pattern, sch, pb, std, sgs, bip>>

Pending == [g |-> EmptyGraph, err |-> "pending"]
NoChain == [a |-> EmptyGraph, b |-> EmptyGraph, c |-> EmptyGraph,
            left |-> Pending, right |-> Pending]

GraphInit ==
    /\ graph = EmptyGraph
    /\ last = [op |-> "init", err |-> "ok"]
    /\ ops = 0

NoInput == [edges |-> {}, input_nodes |-> {}, output_nodes |-> {},
            flow |-> <<>>, planes |-> <<>>]

NoSched == [inverted_dag |-> <<>>, activated_nodes |-> {}, unmeasured_nodes |-> {},
            meas_order |-> <<>>, pc |-> "idle", given |-> NoInput]

\* the builder under test, the ImmutablePattern made from it by freeze and
\* which of its fields are still the builder's own objects
NoBuilder ==
    [p |-> MutablePatternInit({}, <<>>),
     frozen |-> freeze(MutablePatternInit({}, <<>>)),
     snapshot |-> freeze(MutablePatternInit({}, <<>>)),
     made |-> FALSE,
     shared |-> [seq |-> FALSE, output_nodes |-> FALSE, q_indices |-> FALSE],
     last |-> [op |-> "none", err |-> "ok"],
     n |-> 0]

\* no call of is_standardized, get_subgraph_sequences or bipartite_edges
NoStd == [cmds |-> <<>>, given |-> <<>>, result |-> "none"]
NoSgs == [pc |-> "idle", meas_order |-> <<>>, i |-> 0, subgraphs |-> <<>>,
          given |-> NoInput]
NoBip == [A |-> {}, B |-> {}, result |-> {}, swapped |-> {}, pc |-> "idle"]
PureIdle == std = NoStd /\ sgs = NoSgs /\ bip = NoBip

TranspileIdle ==
    /\ tin = NoInput
    /\ tpc = "idle"
    /\ order = <<>>
    /\ pattern = MutablePatternInit({}, <<>>)

Init ==
    /\ GraphInit
    /\ chain = NoChain
    /\ TranspileIdle
    /\ sch = NoSched
    /\ pb = NoBuilder
    /\ PureIdle

\* a call on the graph that returned or raised: r is the operator's result
Call(name, r) ==
    /\ ops < MaxOps
    /\ graph' = r.g
    /\ last' = [op |-> name, err |-> r.err]
    /\ ops' = ops + 1
    /\ UNCHANGED <<chain, transpileVars, sch, pb, pureVars>>

AddNode ==
    \E n \in Nodes, q \in QIdx, isIn \in BOOLEAN, isOut \in BOOLEAN :
        Call("add_node", add_physical_node(graph, n, q, isIn, isOut))

AddEdge ==
    \E a \in Nodes, b \in Nodes : Call("add_edge", add_physical_edge(graph, a, b))

SetInput ==
    \E n \in Nodes : Call("set_input", set_input(graph, n))

SetOutput ==
    \E n \in Nodes : Call("set_output", set_output(graph, n))

SetQIndex ==
    \E n \in Nodes, q \in QIdx : Call("set_q_index", set_q_index(graph, n, q))

SetMeasPlane ==
    \E n \in Nodes, p \in Planes : Call("set_meas_plane", set_meas_plane(graph, n, p))

SetMeasAngle ==
    \E n \in Nodes, t \in Angles : Call("set_meas_angle", set_meas_angle(graph, n, t))

RemoveNode ==
    \E n \in Nodes : Call("remove_node", remove_physical_node(graph, n))

RemoveEdge ==
    \E a \in Nodes, b \in Nodes : Call("remove_edge", remove_physical_edge(graph, a, b))

AppendGraph ==
    \E h \in OtherGraphs : \E r \in append(graph, h) : Call("append", r)

\* check_meas_basis returns or raises naming a node
CheckMeasBasis ==
    \E r \in check_meas_basis(graph) :
        /\ ops < MaxOps
        /\ graph' = r.g
        /\ last' = [op |-> "check_meas_basis", err |-> r.err, node |-> r.node]
        /\ ops' = ops + 1
        /\ UNCHANGED <<chain, transpileVars, sch, pb, pureVars>>

Next ==
    \/ AddNode
    \/ AddEdge
    \/ SetInput
    \/ SetOutput
    \/ SetQIndex
    \/ SetMeasPlane
    \/ SetMeasAngle
    \/ RemoveNode
    \/ RemoveEdge
    \/ AppendGraph
    \/ CheckMeasBasis

Spec == Init /\ [][Next]_vars

\* ---- chains of three graphs -------------------------------------------
\* other's inputs are this graph's outputs, no other node and no edge is
\* shared, and the shared nodes agree on their qubit index
ChainLink(g, h) ==
    /\ common_nodes(g, h) = border_nodes(g, h)
    /\ h.input_nodes = g.output_nodes
    /\ get_physical_edges(g) \cap get_physical_edges(h) = {}
    /\ ~\E n \in common_nodes(g, h) : g.q_indices[n] # h.q_indices[n]

ChainInit ==
    /\ GraphInit
    /\ TranspileIdle
    /\ sch = NoSched
    /\ pb = NoBuilder
    /\ PureIdle
    /\ \E a \in OtherGraphs, b \in OtherGraphs, c \in OtherGraphs :
          /\ ChainLink(a, b)
          /\ ChainLink(b, c)
          /\ (a.physical_nodes \cap c.physical_nodes) \subseteq b.physical_nodes
          /\ chain = [a |-> a, b |-> b, c |-> c, left |-> Pending, right |-> Pending]

\* a.append(b); a.append(c)
ComposeLeft ==
    /\ chain.left.err = "pending"
    /\ \E r1 \in append(chain.a, chain.b) :
          IF r1.err # "ok"
          THEN chain' = [chain EXCEPT !.left = r1]
          ELSE \E r2 \in append(r1.g, chain.c) : chain' = [chain EXCEPT !.left = r2]
    /\ UNCHANGED <<graphVars, transpileVars, sch, pb, pureVars>>

\* b.append(c); a.append(b)
ComposeRight ==
    /\ chain.right.err = "pending"
    /\ \E r1 \in append(chain.b, chain.c) :
          IF r1.err # "ok"
          THEN chain' = [chain EXCEPT !.right = r1]
          ELSE \E r2 \in append(chain.a, r1.g) : chain' = [chain EXCEPT !.right = r2]
    /\ UNCHANGED <<graphVars, transpileVars, sch, pb, pureVars>>

ChainNext == ComposeLeft \/ ComposeRight

SpecChain == ChainInit /\ [][ChainNext]_vars

\* ---- transpile ---------------------------------------------------------
FlowSets == { S \in SUBSET TNodes : Cardinality(S) <= MaxFlowSize }

\* the arguments of a transpile call: a graph on TNodes, its input and output
\* nodes, a flow defined on the non-output nodes, and one plane for the
\* measured nodes
TranspileInit ==
    /\ GraphInit
    /\ chain = NoChain
    /\ \E es \in SUBSET AllEdges(TNodes), ins \in SUBSET TNodes,
          outs \in SUBSET TNodes, p \in Planes :
          \E f \in [TNodes \ outs -> FlowSets] :
              tin = [edges |-> es, input_nodes |-> ins, output_nodes |-> outs,
                     flow |-> f, planes |-> [n \in TNodes \ outs |-> p]]
    /\ tpc = "sort"
    /\ order = <<>>
    /\ pattern = MutablePatternInit({}, <<>>)
    /\ sch = NoSched
    /\ pb = NoBuilder
    /\ PureIdle

\* topological_order: one round of Kahn's algorithm
KahnStep ==
    /\ tpc = "sort"
    /\ \E n \in ZeroInDegree(construct_dag(tin.edges, tin.flow), Range(order)) :
          order' = Append(order, n)
    /\ tpc' = IF Len(order') = Cardinality(TNodes) THEN "emit" ELSE "sort"
    /\ UNCHANGED <<graphVars, chain, sch, pb, tin, pattern, pureVars>>

\* topological_order: nodes remain and none has in-degree zero
KahnCycle ==
    /\ tpc = "sort"
    /\ Range(order) # TNodes
    /\ ZeroInDegree(construct_dag(tin.edges, tin.flow), Range(order)) = {}
    /\ tpc' = "CyclicFlow"
    /\ UNCHANGED <<graphVars, chain, sch, pb, tin, order, pattern, pureVars>>

\* the emission of the commands into a fresh builder
Emit ==
    /\ tpc = "emit"
    /\ LET r == transpile(tin, order)
       IN IF r.err = "ok"
          THEN pattern' = r.p /\ tpc' = "done"
          ELSE pattern' = pattern /\ tpc' = r.err
    /\ UNCHANGED <<graphVars, chain, sch, pb, tin, order, pureVars>>

TranspileNext == KahnStep \/ KahnCycle \/ Emit

SpecTranspile == TranspileInit /\ [][TranspileNext]_vars

\* ---- get_minimized_sp_meas_order --------------------------------------
\* the arguments: a graph on TNodes with its input and output nodes and a
\* flow defined on the non-output nodes; the locals as set before the loop
SchedInit ==
    /\ GraphInit
    /\ chain = NoChain
    /\ tpc = "idle"
    /\ order = <<>>
    /\ pattern = MutablePatternInit({}, <<>>)
    /\ pb = NoBuilder
    /\ PureIdle
    /\ \E es \in SUBSET AllEdges(TNodes), ins \in SUBSET TNodes, outs \in SUBSET TNodes :
          \E f \in [TNodes \ outs -> FlowSets] :
              /\ tin = [edges |-> es, input_nodes |-> ins, output_nodes |-> outs,
                        flow |-> f, planes |-> [n \in TNodes \ outs |-> "XY"]]
              /\ sch = [inverted_dag |-> get_dependencies(es, f),
                        activated_nodes |-> ins,
                        unmeasured_nodes |-> TNodes \ outs,
                        meas_order |-> <<>>,
                        pc |-> "loop",
                        given |-> tin]

\* one pass of the while loop that selects a node
SelectNode ==
    /\ sch.pc = "loop"
    /\ sch.unmeasured_nodes # {}
    /\ meas_candidates(sch) # {}
    /\ LET activation_costs ==
               [node \in meas_candidates(sch) |->
                   count_activation_cost(tin.edges, node, sch.activated_nodes)]
       IN \E target_node \in find_min_from_dict(activation_costs) :
            sch' = [sch EXCEPT
                      !.meas_order = Append(@, target_node),
                      !.activated_nodes =
                          @ \cup get_activation_nodes(tin.edges, target_node, @)
                            \cup {target_node},
                      !.unmeasured_nodes = @ \ {target_node},
                      !.inverted_dag = remove_target(@, target_node)]
    /\ UNCHANGED <<graphVars, chain, transpileVars, pb, pureVars>>

\* a pass that finds no candidate raises "Cycle detected in the graph"
SchedCycle ==
    /\ sch.pc = "loop"
    /\ sch.unmeasured_nodes # {}
    /\ meas_candidates(sch) = {}
    /\ sch' = [sch EXCEPT !.pc = "CyclicFlow"]
    /\ UNCHANGED <<graphVars, chain, transpileVars, pb, pureVars>>

\* the loop ends and meas_order is returned
SchedReturn ==
    /\ sch.pc = "loop"
    /\ sch.unmeasured_nodes = {}
    /\ sch' = [sch EXCEPT !.pc = "done"]
    /\ UNCHANGED <<graphVars, chain, transpileVars, pb, pureVars>>

SchedNext == SelectNode \/ SchedCycle \/ SchedReturn

SpecSched == SchedInit /\ [][SchedNext]_vars

\* the call runs to its return or its raise
SpecSchedFair == SpecSched /\ WF_vars(SchedNext)

\* ---- get_subgraph_sequences on the order the scheduler returns --------
\* get_subgraph_sequences(graph, meas_order) called with the order returned:
\* the initial graph is built; activated_nodes = graph.input_nodes is the
\* graph's own set (graphstate.py 103-105 returns it, not a copy)
SubgraphStart ==
    /\ sch.pc = "done"
    /\ sgs.pc = "idle"
    /\ LET r == initial_graph(tin)
       IN sgs' = [pc |-> IF r.err = "ok" THEN "loop" ELSE r.err,
                  meas_order |-> sch.meas_order,
                  i |-> 1,
                  subgraphs |-> <<r.g>>,
                  given |-> tin]
    /\ UNCHANGED <<graphVars, chain, transpileVars, sch, pb, std, bip>>

\* one pass of "for target_node in meas_order"; the in-place unions on
\* activated_nodes write the graph's input set
SubgraphStep ==
    /\ sgs.pc = "loop"
    /\ sgs.i <= Len(sgs.meas_order)
    /\ LET target_node == sgs.meas_order[sgs.i]
           activated_nodes == tin.input_nodes
           r == subgraph(tin, activated_nodes, target_node)
       IN /\ sgs' = [sgs EXCEPT !.pc = IF r.err = "ok" THEN "loop" ELSE r.err,
                                !.i = @ + 1,
                                !.subgraphs = Append(@, r.g)]
          /\ tin' = [tin EXCEPT !.input_nodes =
                        activated_nodes \cup {target_node}
                          \cup get_activation_nodes(tin.edges, target_node, activated_nodes)]
    /\ UNCHANGED <<graphVars, chain, tpc, order, pattern, sch, pb, std, bip>>

\* the last graph is built and the list is returned
SubgraphLast ==
    /\ sgs.pc = "loop"
    /\ sgs.i > Len(sgs.meas_order)
    /\ LET r == last_graph(tin)
       IN sgs' = [sgs EXCEPT !.pc = IF r.err = "ok" THEN "done" ELSE r.err,
                             !.subgraphs = Append(@, r.g)]
    /\ UNCHANGED <<graphVars, chain, transpileVars, sch, pb, std, bip>>

SubgraphNext == SubgraphStart \/ SubgraphStep \/ SubgraphLast

SpecSub == SchedInit /\ [][SchedNext \/ SubgraphNext]_vars

\* ---- the pattern builder ----------------------------------------------
\* number of calls made on the builder
MaxPatOps == 3

PlainM(n) == CmdM(n, "XY", "0.0", {}, {})
PCmds == { CmdN(0, 0), CmdN(1, 1), PlainM(0), PlainM(1), CmdE(0, 1) }
ExampleCmds == <<CmdN(0, 0), CmdN(1, 1), PlainM(0), CmdN(0, 0), PlainM(1), PlainM(0)>>
ExtendLists == { ExampleCmds, <<CmdN(1, 1), CmdN(1, 1)>> }
ReplaceLists == ExtendLists \cup { <<>> }
BuilderInputs == { {}, {0}, {2}, {0, 2} }

\* the patterns a caller passes to append_pattern
OtherPatterns ==
    { IF marked THEN mark_deterministic(mark_runnable(extend(MutablePatternInit(ins, [n \in ins |-> n]), cmds).p))
      ELSE extend(MutablePatternInit(ins, [n \in ins |-> n]), cmds).p :
        ins \in { {}, {1}, {2} },
        cmds \in { <<>>, <<PlainM(1)>>, <<CmdN(0, 0)>>, <<PlainM(1), CmdN(1, 1)>> },
        marked \in BOOLEAN }

PatternInit ==
    /\ GraphInit
    /\ chain = NoChain
    /\ TranspileIdle
    /\ sch = NoSched
    /\ \E ins \in BuilderInputs :
          pb = [NoBuilder EXCEPT !.p = MutablePatternInit(ins, [n \in ins |-> n])]
    /\ PureIdle

\* what the frozen pattern shows after the builder became q: a field that
\* is still the builder's own object shows the builder's current content
Observed(f, sh, q) ==
    [f EXCEPT !.seq = IF sh.seq THEN q.seq ELSE @,
              !.output_nodes = IF sh.output_nodes THEN q.output_nodes ELSE @,
              !.q_indices = IF sh.q_indices THEN q.q_indices ELSE @]

\* a call on the builder; rebinds names the fields that clear() rebinds
BuilderCall(name, r, rebinds) ==
    /\ pb.n < MaxPatOps
    /\ LET sh == IF rebinds
                 THEN [pb.shared EXCEPT !.seq = FALSE, !.output_nodes = FALSE]
                 ELSE pb.shared
       IN pb' = [pb EXCEPT !.p = r.p,
                           !.shared = sh,
                           !.frozen = Observed(@, sh, r.p),
                           !.last = [op |-> name, err |-> r.err],
                           !.n = @ + 1]
    /\ UNCHANGED <<graphVars, chain, transpileVars, sch, pureVars>>

PAdd == \E cmd \in PCmds : BuilderCall("add", add(pb.p, cmd), FALSE)

PExtend == \E cmds \in ExtendLists : BuilderCall("extend", extend(pb.p, cmds), FALSE)

PClear == BuilderCall("clear", PatOk(clear(pb.p)), TRUE)

PReplace ==
    \E cmds \in ReplaceLists, arg \in { NoneArg, SomeArg({2}) } :
        BuilderCall("replace", replace(pb.p, cmds, arg), TRUE)

PMarkRunnable == BuilderCall("mark_runnable", PatOk(mark_runnable(pb.p)), FALSE)

PMarkDeterministic ==
    BuilderCall("mark_deterministic", PatOk(mark_deterministic(pb.p)), FALSE)

\* freeze(): the new ImmutablePattern holds the builder's objects
PFreeze ==
    /\ pb.n < MaxPatOps
    /\ pb' = [pb EXCEPT !.frozen = freeze(pb.p),
                        !.snapshot = freeze(pb.p),
                        !.made = TRUE,
                        !.shared = [seq |-> TRUE, output_nodes |-> TRUE, q_indices |-> TRUE],
                        !.last = [op |-> "freeze", err |-> "ok"],
                        !.n = @ + 1]
    /\ UNCHANGED <<graphVars, chain, transpileVars, sch, pureVars>>

\* p = p.append_pattern(other): on success the caller goes on with the new
\* pattern, which shares no object with the frozen one
PAppendPattern ==
    /\ pb.n < MaxPatOps
    /\ \E o \in OtherPatterns :
          LET r == append_pattern(pb.p, o)
          IN pb' = [pb EXCEPT !.p = r.p,
                              !.shared = IF r.err = "ok"
                                         THEN [seq |-> FALSE, output_nodes |-> FALSE,
                                               q_indices |-> FALSE]
                                         ELSE @,
                              !.last = [op |-> "append_pattern", err |-> r.err],
                              !.n = @ + 1]
    /\ UNCHANGED <<graphVars, chain, transpileVars, sch, pureVars>>

PatternNext ==
    \/ PAdd
    \/ PExtend
    \/ PClear
    \/ PReplace
    \/ PMarkRunnable
    \/ PMarkDeterministic
    \/ PFreeze
    \/ PAppendPattern

SpecPattern == PatternInit /\ [][PatternNext]_vars

\* ---------------------------------------------- is_standardized on its own
\* longest command sequence handed to is_standardized
MaxStdLen == 3
\* command kinds, "?" being a kind outside standardized_order
StdKinds == {"N", "E", "M", "X", "Z", "C", "?"}

RECURSIVE KindSeqs(_)
KindSeqs(n) ==
    IF n = 0 THEN {<<>>}
    ELSE LET shorter == KindSeqs(n - 1)
         IN shorter \cup { Append(sq, [kind |-> k]) :
                             sq \in { t \in shorter : Len(t) = n - 1 }, k \in StdKinds }

StdInit ==
    /\ GraphInit
    /\ chain = NoChain
    /\ TranspileIdle
    /\ sch = NoSched
    /\ pb = NoBuilder
    /\ sgs = NoSgs
    /\ bip = NoBip
    /\ \E cmds \in KindSeqs(MaxStdLen) :
          std = [cmds |-> cmds, given |-> cmds, result |-> "none"]

\* is_standardized(pattern): iterates the commands and returns or raises
IsStandardized ==
    /\ std.result = "none"
    /\ std' = [std EXCEPT !.result = is_standardized(std.cmds)]
    /\ UNCHANGED <<graphVars, chain, transpileVars, sch, pb, sgs, bip>>

StdNext == IsStandardized
SpecStd == StdInit /\ [][StdNext]_vars

\* ---------------------------------------------- bipartite_edges on its own
\* largest node identifier handed to bipartite_edges
MaxBipNode == 2
BipNodes == 0..MaxBipNode

BipInit ==
    /\ GraphInit
    /\ chain = NoChain
    /\ TranspileIdle
    /\ sch = NoSched
    /\ pb = NoBuilder
    /\ std = NoStd
    /\ sgs = NoSgs
    /\ \E A \in SUBSET BipNodes, B \in SUBSET BipNodes :
          bip = [NoBip EXCEPT !.A = A, !.B = B, !.pc = "call"]

\* the two calls bipartite_edges(A, B) and bipartite_edges(B, A)
BipartiteEdges ==
    /\ bip.pc = "call"
    /\ bip' = [bip EXCEPT !.result = bipartite_edges(bip.A, bip.B),
                          !.swapped = bipartite_edges(bip.B, bip.A),
                          !.pc = "done"]
    /\ UNCHANGED <<graphVars, chain, transpileVars, sch, pb, std, sgs>>

BipNext == BipartiteEdges
SpecBip == BipInit /\ [][BipNext]_vars

\* ------------------------------------------------------------------ claims
\* the spec's index maps: a declared input (output) node with its q_index
input_node_indices(g) == [n \in g.input_nodes |-> g.q_indices[n]]
output_node_indices(g) == [n \in g.output_nodes |-> g.q_indices[n]]
HasBasis(g, n) == g.meas_planes[n] # NoPlane \/ g.meas_angles[n] # NoAngle
Refers(g, n) ==
    \/ n \in g.physical_nodes
    \/ g.physical_edges[n] # {}
    \/ \E m \in Nodes : n \in g.physical_edges[m]
    \/ n \in DOMAIN input_node_indices(g)
    \/ n \in DOMAIN output_node_indices(g)

\* C1: in every reachable graph every edge endpoint and every key of the
\* input and output index maps is a node of the graph; add_edge with an
\* absent endpoint is rejected with InvalidNode and changes nothing; a
\* successful remove_node leaves no edge or index record of the node.
C1_EndpointsAndBoundaryInNodes ==
    /\ \A n \in Nodes : graph.physical_edges[n] # {} =>
           n \in graph.physical_nodes /\ graph.physical_edges[n] \subseteq graph.physical_nodes
    /\ DOMAIN input_node_indices(graph) \subseteq graph.physical_nodes
    /\ DOMAIN output_node_indices(graph) \subseteq graph.physical_nodes
    /\ \A a \in Nodes, b \in Nodes :
           (a \notin graph.physical_nodes \/ b \notin graph.physical_nodes) =>
               add_physical_edge(graph, a, b) = Fail(graph, "InvalidNode")
    /\ \A n \in Nodes :
           LET r == remove_physical_node(graph, n)
           IN r.err = "ok" => ~Refers(r.g, n)

C1_Witness ==
    /\ last = [op |-> "add_edge", err |-> "InvalidNode"]
    /\ graph.physical_nodes # {}
    /\ graph.output_nodes # {}

\* C2: no node is both a declared output and the holder of a measurement
\* basis.
C2_NoOutputWithBasis ==
    \A n \in graph.output_nodes : ~HasBasis(graph, n)

\* C3: the edge set has no self-loop, adjacency is symmetric, and
\* num_physical_edges is the number of distinct unordered edges.
UnorderedEdges(g) ==
    { e \in SUBSET Nodes : \E a \in Nodes, b \in Nodes :
                               e = {a, b} /\ b \in g.physical_edges[a] }

C3_SimpleGraph ==
    /\ \A n \in Nodes : n \notin graph.physical_edges[n]
    /\ \A a \in Nodes, b \in Nodes :
           b \in graph.physical_edges[a] <=> a \in graph.physical_edges[b]
    /\ num_physical_edges(graph) = Cardinality(UnorderedEdges(graph))

\* C4: the input index map and the output index map are injective and every
\* recorded index is >= 0 (a q_index of -1 records no index).
InjectiveOn(g, S) ==
    \A a \in S, b \in S : (a # b /\ g.q_indices[a] >= 0) => g.q_indices[a] # g.q_indices[b]

C4_IndicesInjective ==
    /\ InjectiveOn(graph, graph.input_nodes)
    /\ InjectiveOn(graph, graph.output_nodes)
    /\ \A n \in graph.input_nodes \cup graph.output_nodes : graph.q_indices[n] >= 0 - 1

\* C5: append(other) fails with BoundaryMismatch whenever the common nodes
\* differ from this graph's outputs intersected with other's inputs, and
\* whenever a shared node has a different qubit index in the two graphs.
IndexDisagrees(g, h) ==
    \E n \in common_nodes(g, h) : g.q_indices[n] # h.q_indices[n]

C5_AppendRaisesBoundaryMismatch ==
    \A h \in OtherGraphs :
        (common_nodes(graph, h) # border_nodes(graph, h) \/ IndexDisagrees(graph, h)) =>
            \A r \in append(graph, h) : r.err = "BoundaryMismatch"

\* C6: a failing append leaves this graph exactly as it was.
C6_AppendAllOrNothing ==
    \A h \in OtherGraphs :
        \A r \in append(graph, h) : r.err # "ok" => r.g = graph

\* C7: after a successful append the nodes and edges are the unions, the
\* inputs are this graph's inputs plus other's non-boundary inputs, the
\* outputs are other's outputs plus this graph's non-boundary outputs, and a
\* boundary node that is not an output of other carries other's basis.
C7_AppendMerges ==
    \A h \in OtherGraphs :
        \A r \in append(graph, h) : r.err = "ok" =>
            LET border == border_nodes(graph, h)
            IN /\ r.g.physical_nodes = graph.physical_nodes \cup h.physical_nodes
               /\ \A n \in Nodes :
                      r.g.physical_edges[n] = graph.physical_edges[n] \cup h.physical_edges[n]
               /\ r.g.input_nodes = graph.input_nodes \cup (h.input_nodes \ border)
               /\ r.g.output_nodes = h.output_nodes \cup (graph.output_nodes \ border)
               /\ \A n \in border \ h.output_nodes :
                      HasBasis(h, n) =>
                          /\ r.g.meas_planes[n] = h.meas_planes[n]
                          /\ r.g.meas_angles[n] = h.meas_angles[n]

\* C8: on a chain A, B, C with matching boundaries, (A then B) then C and
\* A then (B then C) both succeed and give the same graph.
C8_AppendAssociative ==
    (chain.left.err # "pending" /\ chain.right.err # "pending") =>
        /\ chain.left.err = "ok"
        /\ chain.right.err = "ok"
        /\ chain.left.g = chain.right.g

\* ---- transpile claims (SpecTranspile) ----------------------------------
Positions(sq, k) == { i \in 1..Len(sq) : sq[i].kind = k }
NodesAt(sq, I) == { sq[i].node : i \in I }
EdgeOf(cmd) == {cmd.nodes[1], cmd.nodes[2]}

\* C9: the pattern produced by transpile from a graph with an acyclic flow
\* satisfies is_standardized: its command kinds appear in the order
\* N, E, M, X, Z, C and no command follows a command of a strictly later kind.
KindRank(k) ==
    CASE k = "N" -> 1 [] k = "E" -> 2 [] k = "M" -> 3
      [] k = "X" -> 4 [] k = "Z" -> 5 [] OTHER -> 6

C9_TranspileStandardized ==
    tpc = "done" =>
        /\ is_standardized(pattern.seq) = "True"
        /\ \A i, j \in 1..Len(pattern.seq) :
              i < j => KindRank(pattern.seq[i].kind) <= KindRank(pattern.seq[j].kind)

C9_Witness ==
    /\ tpc = "done"
    /\ \A k \in {"N", "E", "M", "X", "Z"} : Positions(pattern.seq, k) # {}

\* C10: transpile emits exactly one N for each internal node followed by one
\* N for each output node, one E for each graph edge, one M for each
\* non-output node with the M commands in a topological order of the
\* dependency DAG, then one X for each output node with domain equal to its
\* x_corrections, then one Z for each output node with domain equal to its
\* z_corrections, and nothing else; every non-output node is measured exactly
\* once and no output node is measured.
C10_TranspileEmitsExactly ==
    tpc = "done" =>
        LET sq == pattern.seq
            outs == tin.output_nodes
            internal == TNodes \ (tin.input_nodes \cup outs)
            measured == TNodes \ outs
            dag == construct_dag(tin.edges, tin.flow)
            nI == Cardinality(internal)
            nO == Cardinality(outs)
            nE == Cardinality(tin.edges)
            nM == Cardinality(measured)
            posI == 1..nI
            posO == (nI + 1)..(nI + nO)
            posE == (nI + nO + 1)..(nI + nO + nE)
            posM == (nI + nO + nE + 1)..(nI + nO + nE + nM)
            posX == (nI + nO + nE + nM + 1)..(nI + nO + nE + nM + nO)
            posZ == (nI + nO + nE + nM + nO + 1)..(nI + nO + nE + nM + 2 * nO)
        IN /\ Len(sq) = nI + 2 * nO + nE + nM + nO
           /\ \A i \in posI \cup posO : sq[i].kind = "N"
           /\ NodesAt(sq, posI) = internal
           /\ NodesAt(sq, posO) = outs
           /\ \A i \in posE : sq[i].kind = "E"
           /\ { EdgeOf(sq[i]) : i \in posE } = { {e[1], e[2]} : e \in tin.edges }
           /\ \A i \in posM : sq[i].kind = "M"
           /\ NodesAt(sq, posM) = measured
           /\ \A i, j \in posM : sq[j].node \in dag[sq[i].node] => i < j
           /\ \A i \in posX :
                 /\ sq[i].kind = "X"
                 /\ sq[i].domain = { m \in measured : sq[i].node \in tin.flow[m] } \ {sq[i].node}
           /\ NodesAt(sq, posX) = outs
           /\ \A i \in posZ :
                 /\ sq[i].kind = "Z"
                 /\ sq[i].domain =
                        { m \in measured :
                            sq[i].node \in odd_neighborhood(tin.edges, tin.flow[m]) } \ {sq[i].node}
           /\ NodesAt(sq, posZ) = outs
           /\ pattern.output_nodes = outs

C10_Witness ==
    /\ tpc = "done"
    /\ tin.output_nodes # {}
    /\ TNodes \ (tin.input_nodes \cup tin.output_nodes) # {}
    /\ Cardinality(tin.edges) >= 2
    /\ \E i, j \in Positions(pattern.seq, "M") :
          i < j /\ pattern.seq[j].node \in construct_dag(tin.edges, tin.flow)[pattern.seq[i].node]
    /\ \E i \in Positions(pattern.seq, "X") : pattern.seq[i].domain # {}
    /\ \E i \in Positions(pattern.seq, "Z") : pattern.seq[i].domain # {}

\* the correction sets of a node, written out from the flow and the edges
FlowTargets(m) == IF m \in DOMAIN tin.flow THEN tin.flow[m] ELSE {}
Adjacent(a, b) == <<a, b>> \in tin.edges \/ <<b, a>> \in tin.edges
OddInto(t, S) == Cardinality({ s \in S : Adjacent(t, s) }) % 2 = 1
XCorr(t) == { m \in TNodes : m # t /\ t \in FlowTargets(m) }
ZCorr(t) == { m \in TNodes : m # t /\ m \in DOMAIN tin.flow /\ OddInto(t, FlowTargets(m)) }

\* C11: every M command of a transpiled pattern has its domains derived from
\* the node's correction sets by its plane: XY gives s_domain = x_corrections
\* and t_domain = z_corrections; XZ gives s_domain = x_corrections union
\* z_corrections and t_domain = x_corrections; YZ gives s_domain =
\* z_corrections and t_domain = x_corrections.
C11_PlaneRule ==
    tpc = "done" =>
        \A i \in Positions(pattern.seq, "M") :
            LET c == pattern.seq[i]
                xc == XCorr(c.node)
                zc == ZCorr(c.node)
            IN /\ c.plane = tin.planes[c.node]
               /\ c.plane = "XY" => c.s_domain = xc /\ c.t_domain = zc
               /\ c.plane = "XZ" => c.s_domain = xc \cup zc /\ c.t_domain = xc
               /\ c.plane = "YZ" => c.s_domain = zc /\ c.t_domain = xc

C11_Witness ==
    /\ tpc = "done"
    /\ \E i \in Positions(pattern.seq, "M") :
          LET c == pattern.seq[i]
          IN /\ c.plane = "XZ"
             /\ XCorr(c.node) # {}
             /\ ZCorr(c.node) # {}
             /\ XCorr(c.node) # ZCorr(c.node)

\* C12: generate_corrections returns two maps defined on every graph node;
\* x_corrections[t] is the set of nodes m other than t with t in flow(m),
\* z_corrections[t] is the set of nodes m other than t such that t has an odd
\* number of graph neighbours in flow(m); a never-corrected node maps to the
\* empty set and no node is in its own correction set.
C12_GenerateCorrections ==
    tpc # "idle" =>
        LET gc == generate_corrections(tin.edges, tin.flow)
        IN /\ DOMAIN gc.x = TNodes
           /\ DOMAIN gc.z = TNodes
           /\ \A t \in TNodes :
                 /\ gc.x[t] = XCorr(t)
                 /\ gc.z[t] = ZCorr(t)
                 /\ t \notin gc.x[t] \cup gc.z[t]
                 /\ (\A m \in DOMAIN tin.flow :
                        t \notin tin.flow[m] /\ ~OddInto(t, tin.flow[m]))
                      => gc.x[t] = {} /\ gc.z[t] = {}

C12_Witness ==
    /\ tpc = "done"
    /\ \E m \in DOMAIN tin.flow : m \in tin.flow[m] /\ OddInto(m, tin.flow[m])
    /\ \E t \in TNodes : XCorr(t) # {} /\ ZCorr(t) # {} /\ XCorr(t) # ZCorr(t)
    /\ \E t \in TNodes : XCorr(t) = {} /\ ZCorr(t) = {}

\* the dependency relation written out from the flow and the edges
DagEdge(m, t) ==
    /\ m \in DOMAIN tin.flow
    /\ t # m
    /\ (t \in tin.flow[m] \/ OddInto(t, tin.flow[m]))

RECURSIVE DagPath(_, _, _)
DagPath(a, b, k) ==
    IF k = 1 THEN DagEdge(a, b)
    ELSE \E c \in TNodes : DagEdge(a, c) /\ DagPath(c, b, k - 1)

HasCycle == \E a \in TNodes, k \in 1..Cardinality(TNodes) : DagPath(a, a, k)

Sorted == tpc \in {"emit", "done", "NodeAlreadyPrepared"}

\* C13: construct_dag has the edge m -> t exactly for t in flow(m) or in the
\* odd neighbourhood of flow(m), t different from m; topological_order
\* returns every node exactly once with m before t for every edge m -> t
\* when the graph is acyclic, and fails with CyclicFlow, returning no order,
\* exactly when the graph has a directed cycle.
C13_TopologicalOrder ==
    tpc # "idle" =>
        LET dag == construct_dag(tin.edges, tin.flow)
        IN /\ DOMAIN dag = TNodes
           /\ \A m \in TNodes : dag[m] = { t \in TNodes : DagEdge(m, t) }
           /\ Sorted =>
                 /\ ~HasCycle
                 /\ Len(order) = Cardinality(TNodes)
                 /\ Range(order) = TNodes
                 /\ \A i, j \in 1..Len(order) : DagEdge(order[i], order[j]) => i < j
           /\ tpc = "CyclicFlow" => HasCycle
           /\ tpc = "sort" => Len(order) < Cardinality(TNodes)

C13_Witness ==
    /\ tpc = "emit"
    /\ \E a, b, c \in TNodes : a # c /\ DagEdge(a, b) /\ DagEdge(b, c)

\* ---- scheduler claims (SpecSched) --------------------------------------
NonOutputs == TNodes \ tin.output_nodes

\* C14: get_minimized_sp_meas_order returns a list holding each non-output
\* node exactly once and no output node, in which no node comes before a
\* node that points into it in the dependency DAG; when every flow image is
\* empty the call succeeds.
C14_MeasOrderRespectsDag ==
    /\ sch.pc = "done" =>
          /\ Len(sch.meas_order) = Cardinality(NonOutputs)
          /\ Range(sch.meas_order) = NonOutputs
          /\ \A i, j \in 1..Len(sch.meas_order) :
                DagEdge(sch.meas_order[i], sch.meas_order[j]) => i < j
    /\ (\A m \in DOMAIN tin.flow : tin.flow[m] = {}) => sch.pc # "CyclicFlow"

C14_Witness ==
    /\ sch.pc = "done"
    /\ Len(sch.meas_order) = 3
    /\ DagEdge(sch.meas_order[1], sch.meas_order[2])
    /\ DagEdge(sch.meas_order[2], sch.meas_order[3])
    /\ sch.meas_order[1] > sch.meas_order[2]

SchedSafe ==
    /\ Len(sch.meas_order) + Cardinality(sch.unmeasured_nodes) = Cardinality(NonOutputs)
    /\ sch.pc = "CyclicFlow" => HasCycle /\ sch.unmeasured_nodes # {}
    /\ sch.pc = "done" => ~HasCycle /\ Len(sch.meas_order) = Cardinality(NonOutputs)

\* C15: get_minimized_sp_meas_order terminates; it fails with CyclicFlow
\* exactly when the dependency graph has a directed cycle, detected when
\* unmeasured nodes remain and none has zero remaining in-degree, and
\* otherwise returns after exactly one selection per non-output node.
C15_SchedulerTerminates ==
    /\ []SchedSafe
    /\ <>(sch.pc \in {"done", "CyclicFlow"})

C15_Witness ==
    /\ sch.pc = "CyclicFlow"
    /\ Len(sch.meas_order) = 1
    /\ tin.output_nodes = {}

\* ---- builder claims (SpecPattern) --------------------------------------
\* the nodes alive after the commands: the inputs, plus every node an N
\* prepared, minus every node an M measured since
RECURSIVE LiveAfter(_, _)
LiveAfter(live, cmds) ==
    IF cmds = <<>> THEN live
    ELSE LiveAfter(IF Head(cmds).kind = "N" THEN live \cup {Head(cmds).node}
                   ELSE IF Head(cmds).kind = "M" THEN live \ {Head(cmds).node}
                   ELSE live,
                   Tail(cmds))

\* C16: add(N(node)) fails with NodeAlreadyPrepared exactly when node is in
\* the live output set (an input node or an N-prepared node not measured
\* since); a failing add leaves the command sequence, the output-node set,
\* the q-index map and both flags unchanged.
C16_AddNodeAlreadyPrepared ==
    /\ pb.p.output_nodes = LiveAfter(pb.p.input_nodes, pb.p.seq)
    /\ \A cmd \in PCmds :
          LET r == add(pb.p, cmd)
              live == cmd.kind = "N" /\ cmd.node \in LiveAfter(pb.p.input_nodes, pb.p.seq)
          IN /\ (r.err = "NodeAlreadyPrepared") <=> live
             /\ r.err \in {"ok", "NodeAlreadyPrepared"}
             /\ r.err # "ok" => r.p = pb.p
             /\ r.err = "ok" => r.p.seq = Append(pb.p.seq, cmd)

C16_Witness ==
    /\ pb.last = [op |-> "add", err |-> "NodeAlreadyPrepared"]
    /\ pb.p.runnable
    /\ Len(pb.p.seq) >= 1
    /\ pb.p.input_nodes # {}

\* C17: after any add, extend, clear or replace that returned, both flags
\* of the builder are false.
C17_MutationInvalidatesFlags ==
    (pb.last.op \in {"add", "extend", "clear", "replace"} /\ pb.last.err = "ok") =>
        (~pb.p.runnable /\ ~pb.p.deterministic)

\* every node a pattern holds: its inputs and the nodes of its N commands
PatternNodes(p) == p.input_nodes \cup get_nodes(p)

\* C18: when the nodes the two patterns share are exactly the output nodes
\* of this pattern that are input nodes of other, append_pattern succeeds
\* and the new pattern has this pattern's commands followed by other's, the
\* inputs of this pattern plus other's non-boundary inputs, and each flag
\* set only if both operands had it; when the shared nodes differ from that
\* boundary it fails with BoundaryMismatch.
C18_AppendPattern ==
    \A o \in OtherPatterns :
        LET r == append_pattern(pb.p, o)
            sharedNodes == PatternNodes(pb.p) \cap PatternNodes(o)
            boundary == pb.p.output_nodes \cap o.input_nodes
        IN IF sharedNodes = boundary
           THEN /\ r.err = "ok"
                /\ r.p.seq = pb.p.seq \o o.seq
                /\ r.p.input_nodes = pb.p.input_nodes \cup (o.input_nodes \ boundary)
                /\ r.p.runnable = (pb.p.runnable /\ o.runnable)
                /\ r.p.deterministic = (pb.p.deterministic /\ o.deterministic)
           ELSE r.err = "BoundaryMismatch"

\* C19: the frozen pattern keeps the commands, input nodes, output nodes,
\* q-indices and flags the builder had when freeze was called, whatever is
\* done to the builder afterwards.
C19_FreezeIsSnapshot ==
    pb.made => pb.frozen = pb.snapshot

\* the live-node count after the first k commands, counted directly
CountKind(cmds, k, kind) == Cardinality({ i \in 1..k : cmds[i].kind = kind })
SpaceAfter(inputs, cmds, k) ==
    Cardinality(inputs) + CountKind(cmds, k, "N") - CountKind(cmds, k, "M")
PrefixMax(inputs, cmds) ==
    CHOOSE v \in { SpaceAfter(inputs, cmds, k) : k \in 0..Len(cmds) } :
        \A k \in 0..Len(cmds) : SpaceAfter(inputs, cmds, k) <= v
SeqMax(sq) == CHOOSE v \in Range(sq) : \A w \in Range(sq) : w <= v
KindsOf(cmds) == [i \in 1..Len(cmds) |-> cmds[i].kind]

\* C20: calc_max_space is the maximum over all prefixes of the command
\* sequence, the empty one included, of inputs + N commands - M commands;
\* k inputs with command kinds N,N,M,N,M,M give k + 2; the builder, the
\* pattern frozen from it and the maximum of get_space_list agree.
C20_CalcMaxSpace ==
    /\ calc_max_space(pb.p) = PrefixMax(pb.p.input_nodes, pb.p.seq)
    /\ calc_max_space(pb.p) = SeqMax(get_space_list(pb.p))
    /\ KindsOf(pb.p.seq) = <<"N", "N", "M", "N", "M", "M">> =>
          calc_max_space(pb.p) = Cardinality(pb.p.input_nodes) + 2
    /\ pb.made =>
          frozen_calc_max_space(pb.frozen) = PrefixMax(pb.frozen.input_nodes, pb.frozen.seq)
    /\ pb.last.op = "freeze" => frozen_calc_max_space(pb.frozen) = calc_max_space(pb.p)

C20_Witness ==
    /\ KindsOf(pb.p.seq) = <<"N", "N", "M", "N", "M", "M">>
    /\ Cardinality(pb.p.input_nodes) = 1
    /\ pb.last.op = "freeze"
    /\ calc_max_space(pb.p) = 3

\* C21: is_standardized returns true exactly when every command kind is one
\* of N, E, M, X, Z, C and no command follows a command of a strictly later
\* kind; it returns true for the empty pattern, it never returns true for a
\* pattern holding an unrecognized kind (it raises ValueError or returns
\* false), and the pattern is the same after the call.
NonDecreasing(cmds) ==
    \A i, j \in 1..Len(cmds) :
        i < j => KindRank(cmds[i].kind) <= KindRank(cmds[j].kind)

AllRecognized(cmds) ==
    \A i \in 1..Len(cmds) : cmds[i].kind \in {"N", "E", "M", "X", "Z", "C"}

C21_IsStandardized ==
    std.result # "none" =>
        /\ std.cmds = std.given
        /\ (std.result = "True") <=> (AllRecognized(std.given) /\ NonDecreasing(std.given))
        /\ std.given = <<>> => std.result = "True"
        /\ ~AllRecognized(std.given) => std.result \in {"False", "ValueError"}
        /\ AllRecognized(std.given) => std.result \in {"True", "False"}

C21_Witness ==
    /\ std.result = "False"
    /\ Len(std.given) = 3
    /\ std.given[1].kind = "N" /\ std.given[2].kind = "M" /\ std.given[3].kind = "E"

\* C22: remove_node(n) fails with InvalidNode when n is not in the graph and
\* with InputNodeRemoval when n is a declared input, and in both cases the
\* graph (nodes, edges, index maps, bases) is unchanged; a removal of a node
\* or of an edge therefore keeps every declared input in the graph and in the
\* input set.
RemoveNodeRaises(n) ==
    LET r == remove_physical_node(graph, n)
    IN /\ n \notin graph.physical_nodes => r.err = "InvalidNode"
       /\ (n \in graph.physical_nodes /\ n \in graph.input_nodes) =>
              r.err = "InputNodeRemoval"
       /\ r.err # "ok" => r.g = graph

\* the graph h left by a removal called on the current graph
InputsSurvive(h) ==
    /\ graph.input_nodes \subseteq h.input_nodes
    /\ (graph.input_nodes \cap graph.physical_nodes) \subseteq h.physical_nodes
    /\ \A n \in graph.input_nodes : h.q_indices[n] = graph.q_indices[n]

C22_RemoveNodeRaises ==
    /\ \A n \in Nodes : RemoveNodeRaises(n)
    /\ \A n \in Nodes : InputsSurvive(remove_physical_node(graph, n).g)
    /\ \A a, b \in Nodes : InputsSurvive(remove_physical_edge(graph, a, b).g)

C22_Witness ==
    /\ last.op = "remove_node"
    /\ last.err = "InputNodeRemoval"
    /\ graph.input_nodes # {}
    /\ graph.input_nodes \subseteq graph.physical_nodes

\* C23: a successful remove_node(n) removes exactly n and its incident edges:
\* num_physical_edges drops by the number of neighbours of n; n leaves the
\* nodes, every neighbour set, the outputs and the bases; every other node,
\* every edge not at n and every other node's index and basis stay.
RemoveNodeExact(n) ==
    LET r == remove_physical_node(graph, n)
        h == r.g
    IN r.err = "ok" =>
        /\ num_physical_edges(h) =
              num_physical_edges(graph) - Cardinality(get_neighbors(graph, n))
        /\ h.physical_nodes = graph.physical_nodes \ {n}
        /\ \A m \in Nodes : n \notin h.physical_edges[m]
        /\ n \notin h.output_nodes
        /\ ~HasBasis(h, n)
        /\ h.input_nodes = graph.input_nodes
        /\ h.output_nodes = graph.output_nodes \ {n}
        /\ \A m \in Nodes \ {n} :
              /\ h.physical_edges[m] = graph.physical_edges[m] \ {n}
              /\ h.q_indices[m] = graph.q_indices[m]
              /\ h.meas_planes[m] = graph.meas_planes[m]
              /\ h.meas_angles[m] = graph.meas_angles[m]

C23_RemoveNodeExact == \A n \in Nodes : RemoveNodeExact(n)

\* C24: check_meas_basis succeeds exactly when every node that is not a
\* declared output has a measurement basis (hence on the empty graph, and
\* when the only node without a basis is an output); otherwise it fails with
\* MissingMeasurementBasis naming a non-output node without a basis; the
\* graph is the same after the call.
CheckedOutcome ==
    last.op = "check_meas_basis" =>
        /\ (last.err = "ok") <=>
              \A n \in graph.physical_nodes \ graph.output_nodes : HasBasis(graph, n)
        /\ graph.physical_nodes = {} => last.err = "ok"
        /\ last.err # "ok" =>
              /\ last.err = "MissingMeasurementBasis"
              /\ last.node \in graph.physical_nodes \ graph.output_nodes
              /\ ~HasBasis(graph, last.node)

C24_CheckMeasBasis ==
    /\ CheckedOutcome
    /\ \A r \in check_meas_basis(graph) : r.g = graph

C24_Witness ==
    /\ last.op = "check_meas_basis"
    /\ last.err = "ok"
    /\ \E n \in graph.output_nodes \cap graph.physical_nodes : ~HasBasis(graph, n)
    /\ \E n \in graph.physical_nodes \ graph.output_nodes : HasBasis(graph, n)

\* C25: bipartite_edges(A, B) is exactly the set of pairs (smaller, larger)
\* of one node of A and a different node of B; for disjoint A and B it has
\* |A| * |B| elements; it equals bipartite_edges(B, A); it is empty when A or
\* B is empty.
PairsBetween(A, B) ==
    { e \in BipNodes \X BipNodes :
        /\ e[1] < e[2]
        /\ \/ e[1] \in A /\ e[2] \in B
           \/ e[2] \in A /\ e[1] \in B }

C25_BipartiteEdges ==
    bip.pc = "done" =>
        /\ bip.result = PairsBetween(bip.A, bip.B)
        /\ \A e \in bip.result : e[1] < e[2]
        /\ bip.A \cap bip.B = {} =>
              Cardinality(bip.result) = Cardinality(bip.A) * Cardinality(bip.B)
        /\ bip.result = bip.swapped
        /\ (bip.A = {} \/ bip.B = {}) => bip.result = {}

C25_Witness ==
    /\ bip.pc = "done"
    /\ bip.A = {1, 2}
    /\ bip.B = {0}
    /\ bip.result = {<<0, 1>>, <<0, 2>>}

\* ---- snapshot claims (SpecSub) ------------------------------------------
\* the edges of a snapshot, as unordered pairs written smaller node first
SnapEdges(g) ==
    { e \in TNodes \X TNodes :
        e[1] < e[2] /\ (e[2] \in g.physical_edges[e[1]] \/ e[1] \in g.physical_edges[e[2]]) }

SnapBases(g) ==
    { n \in TNodes : g.meas_planes[n] # NoPlane \/ g.meas_angles[n] # NoAngle }

\* the graph as it was handed to get_subgraph_sequences
GivenNeighbours(n) ==
    { m \in TNodes : <<m, n>> \in sgs.given.edges \/ <<n, m>> \in sgs.given.edges }

\* the nodes prepared before the k-th measurement: the inputs, the nodes
\* measured before it and their neighbours
RECURSIVE PreparedBefore(_)
PreparedBefore(k) ==
    IF k <= 1 THEN sgs.given.input_nodes
    ELSE PreparedBefore(k - 1) \cup {sgs.meas_order[k - 1]}
           \cup GivenNeighbours(sgs.meas_order[k - 1])

Star(n, S) == { <<Min2(n, m), Max2(n, m)>> : m \in S }

\* C26: get_subgraph_sequences returns len(meas_order) + 2 snapshots; the
\* first holds exactly the input nodes and no edge; the last holds exactly
\* the output nodes and the graph edges between two outputs; the k-th one in
\* between holds exactly the k-th measured node with its basis, its newly
\* activated neighbours and its neighbours prepared before, and exactly the
\* edges from the measured node to each of them.
C26_SubgraphSequences ==
    /\ sgs.pc \in {"idle", "loop", "done"}
    /\ sgs.pc = "done" =>
        LET n == Len(sgs.meas_order)
            first == sgs.subgraphs[1]
            final == sgs.subgraphs[n + 2]
            outs == sgs.given.output_nodes
        IN /\ Len(sgs.subgraphs) = n + 2
           /\ first.physical_nodes = sgs.given.input_nodes
           /\ SnapEdges(first) = {}
           /\ final.physical_nodes = outs
           /\ SnapEdges(final) =
                 { e \in sgs.given.edges : e[1] \in outs /\ e[2] \in outs }
           /\ \A k \in 1..n :
                 LET g == sgs.subgraphs[k + 1]
                     t == sgs.meas_order[k]
                     fresh == GivenNeighbours(t) \ PreparedBefore(k)
                     old == GivenNeighbours(t) \cap PreparedBefore(k)
                 IN /\ g.physical_nodes = {t} \cup fresh \cup old
                    /\ SnapEdges(g) = Star(t, fresh \cup old)
                    /\ \A m \in TNodes : g.physical_edges[m] \subseteq g.physical_nodes \ {m}
                    /\ SnapBases(g) = {t}
                    /\ g.meas_planes[t] = sgs.given.planes[t]
                    /\ g.meas_angles[t] = GraphMeasAngles(sgs.given)[t]
                    /\ fresh \subseteq g.output_nodes \ g.input_nodes
                    /\ old \subseteq g.output_nodes \cap g.input_nodes

C26_Witness ==
    /\ sgs.pc = "done"
    /\ Len(sgs.meas_order) = 2
    /\ GivenNeighbours(sgs.meas_order[2]) \ PreparedBefore(2) # {}
    /\ GivenNeighbours(sgs.meas_order[2]) \cap PreparedBefore(2) # {}
    /\ Cardinality(SnapEdges(sgs.subgraphs[3])) = 2

\* C27: get_minimized_sp_meas_order and get_subgraph_sequences leave their
\* arguments as they were: the graph's nodes, edges, input set, output set
\* and bases, the flow and the measurement order are the same after either
\* call as before it.
C27_PureFunctions ==
    /\ sch.pc # "idle" => tin = sch.given
    /\ sgs.pc # "idle" =>
          /\ tin = sgs.given
          /\ sgs.meas_order = sch.meas_order

\* ---- selection rule of the scheduler (SpecSched) -----------------------
MeasuredBefore(k) == { sch.meas_order[j] : j \in 1..(k - 1) }

\* the inputs, the nodes selected before step k and all their neighbours
ActivatedBefore(k) ==
    tin.input_nodes \cup MeasuredBefore(k)
      \cup { n \in TNodes : \E m \in MeasuredBefore(k) : Adjacent(m, n) }

ActivationCost(n, k) ==
    Cardinality({ m \in TNodes : Adjacent(n, m) } \ ActivatedBefore(k))

\* unmeasured nodes all of whose dependencies were selected before step k
ReadyAt(k) ==
    { n \in NonOutputs \ MeasuredBefore(k) :
        \A m \in TNodes : DagEdge(m, n) => m \in MeasuredBefore(k) }

\* C28: every node get_minimized_sp_meas_order selects has, at its step,
\* zero remaining dependency in-degree and the least activation cost (number
\* of neighbours not yet activated) among the unmeasured nodes with zero
\* in-degree; the activated set is the inputs plus every selected node and
\* its neighbours; a selected node is in no dependency set any more.
C28_SelectsMinimalCost ==
    sch.pc # "idle" =>
        LET n == Len(sch.meas_order)
        IN /\ \A k \in 1..n :
                 /\ sch.meas_order[k] \in ReadyAt(k)
                 /\ \A c \in ReadyAt(k) :
                       ActivationCost(sch.meas_order[k], k) <= ActivationCost(c, k)
           /\ sch.activated_nodes = ActivatedBefore(n + 1)
           /\ sch.unmeasured_nodes = NonOutputs \ MeasuredBefore(n + 1)
           /\ \A c \in DOMAIN sch.inverted_dag :
                 sch.inverted_dag[c] =
                     { m \in TNodes : DagEdge(m, c) } \ MeasuredBefore(n + 1)

C28_Witness ==
    /\ sch.pc = "done"
    /\ Len(sch.meas_order) = 3
    /\ \E c \in ReadyAt(1) : ActivationCost(sch.meas_order[1], 1) < ActivationCost(c, 1)
    /\ \E c \in ReadyAt(2) : ActivationCost(sch.meas_order[2], 2) < ActivationCost(c, 2)

\* ---- correction domains of a transpiled pattern (SpecTranspile) --------
MeasuredUpTo(sq, i) == { sq[j].node : j \in { k \in 1..(i - 1) : sq[k].kind = "M" } }

\* C29: in a pattern produced by transpile every node in the s_domain or
\* t_domain of an M command is measured by an M command earlier in the
\* sequence and is not the measured node itself, and every node in the
\* domain of an X or Z command is a non-output node measured in the pattern.
C29_DomainsReferBack ==
    tpc = "done" =>
        LET sq == pattern.seq
        IN \A i \in 1..Len(sq) :
              /\ sq[i].kind = "M" =>
                    /\ sq[i].s_domain \cup sq[i].t_domain \subseteq MeasuredUpTo(sq, i)
                    /\ sq[i].node \notin sq[i].s_domain \cup sq[i].t_domain
              /\ sq[i].kind \in {"X", "Z"} =>
                    /\ sq[i].domain \subseteq MeasuredUpTo(sq, Len(sq) + 1)
                    /\ sq[i].domain \cap tin.output_nodes = {}

C29_Witness ==
    /\ tpc = "done"
    /\ \E i \in 1..Len(pattern.seq) :
          /\ pattern.seq[i].kind = "M"
          /\ pattern.seq[i].s_domain # {}
          /\ pattern.seq[i].t_domain # {}
    /\ \E i \in 1..Len(pattern.seq) :
          pattern.seq[i].kind = "Z" /\ pattern.seq[i].domain # {}

\* C30: in the snapshots returned for an order the scheduler produced, every
\* edge of the graph is in exactly one snapshot, and no snapshot holds a node
\* that was the measured node of an earlier snapshot.
C30_SnapshotsPartitionEdges ==
    sgs.pc = "done" =>
        LET n == Len(sgs.meas_order)
        IN /\ \A e \in sgs.given.edges :
                 Cardinality({ k \in 1..(n + 2) : e \in SnapEdges(sgs.subgraphs[k]) }) = 1
           /\ \A j, k \in 1..n :
                 j < k => sgs.meas_order[j] \notin sgs.subgraphs[k + 1].physical_nodes
           /\ \A j \in 1..n :
                 sgs.meas_order[j] \notin sgs.subgraphs[n + 2].physical_nodes

====
